---- MODULE Spec2Model ----
(***************************************************************************)
(* A model of lewis-king/fpl-mcp-server: the on-disk TTL cache             *)
(* (cache.py), the login/session store (state.py, web.py, mcp_tools.py)    *)
(* and the player-name resolver with the tools that consume it             *)
(* (state.py, mcp_tools.py, mcp_resources.py).                             *)
(*                                                                         *)
(* Three specifications share the variables:                               *)
(*   CacheSpec     the cache directory under set/invalidate/clock/crash    *)
(*   LoginSpec     the pending-login and active-session maps               *)
(*   ResolverSpec  index build and name resolution over loaded players     *)
(***************************************************************************)
EXTENDS Integers, Sequences, FiniteSets, TLC

VARIABLES
    files,          \* cache directory: path -> file content
    now,            \* datetime.now(), in minutes
    written,        \* history: key -> never set, or the last completed set() of the key,
                    \*          or cleared by a later invalidate / interrupted set of the key
    lastOp,         \* history: the last cache call and its key
    pending_logins, \* SessionStore.pending_logins: request id -> PendingLogin (or NoLogin)
    active_sessions,\* SessionStore.active_sessions: session id -> client (or NoClient)
    user_info,      \* FPLClient.user_info of each client object
    active_session_id, \* mcp_tools._active_session_id
    inflight,       \* set_login_success calls begun on the web thread and not yet returned
    lastSubmit,     \* history: the submit_login run on a pending request, if that was
                    \*          the last call made: its request id and what
                    \*          login_and_get_token did
    bootstrap_data, \* SessionStore.bootstrap_data: None, or the loaded elements
    player_name_map,\* SessionStore.player_name_map, in insertion order
    lastCall        \* history: the last resolver call, its arguments and its result

cacheVars == <<files, now, written, lastOp>>
loginVars == <<pending_logins, active_sessions, user_info, active_session_id, inflight, lastSubmit>>
resolverVars == <<bootstrap_data, player_name_map, lastCall>>
vars == <<cacheVars, loginVars, resolverVars>>

(***************************************************************************)
(*                              TTL CACHE                                  *)
(***************************************************************************)

\* DataCache(cache_dir="data", ttl_hours=4)
ttl_hours == 4

\* self.metadata_suffix
metadata_suffix == ".meta.json"

\* timedelta(hours=h) in minutes
Hours(h) == h * 60

\* The instants at which the clock is observed: T, T+3h59m, T+4h, T+4h01m.
Instants == {0, Hours(ttl_hours) - 1, Hours(ttl_hours), Hours(ttl_hours) + 1}

\* A last_updated string that datetime.fromisoformat rejects.
NotIso == -1

\* Cache keys: a plain key and the keys named like its metadata files.
Keys == {"k", "k" \o metadata_suffix, ("k" \o metadata_suffix) \o metadata_suffix}

\* self.cache_dir / f"{cache_file}{self.metadata_suffix}"
get_metadata_path(cache_file) == cache_file \o metadata_suffix

\* self.cache_dir / cache_file
get_data_path(cache_file) == cache_file

Paths == {get_data_path(k) : k \in Keys} \cup {get_metadata_path(k) : k \in Keys}

\* --- file contents and JSON values -------------------------------------
\* No file at the path.
Missing == [kind |-> "missing"]
\* A file that json.load rejects (e.g. truncated by open(path, 'w')).
Corrupt == [kind |-> "corrupt"]
\* A JSON value that CacheMetadata(**data) rejects (not an object, or an object
\* lacking last_updated or ttl_hours).
Blob == [kind |-> "blob"]
\* A JSON object {"last_updated": <str>, "ttl_hours": <int>}.
MetaDict(t, h) == [kind |-> "metadata", last_updated |-> t, ttl_hours |-> h]

\* JSON-serializable values a caller may pass to set().
JsonVals ==
    {Blob} \cup {MetaDict(t, ttl_hours) : t \in {0, NotIso}}

\* Python's None.
None == [kind |-> "None"]

\* A call's outcome: a returned value, or an exception that propagates.
Ret(v) == [exc |-> FALSE, val |-> v]
Raise == [exc |-> TRUE, val |-> None]

\* Path.exists
exists(f, p) == f[p].kind # "missing"

\* DataCache._read_metadata: None unless the file parses as CacheMetadata.
read_metadata(f, cache_file) ==
    LET c == f[get_metadata_path(cache_file)] IN
    IF ~exists(f, get_metadata_path(cache_file)) THEN None
    ELSE IF c.kind = "metadata" THEN c
    ELSE None

\* CacheMetadata.is_expired: fromisoformat raises on a malformed timestamp.
metadata_is_expired(m, t) ==
    IF m.last_updated = NotIso THEN Raise
    ELSE Ret(t > m.last_updated + Hours(m.ttl_hours))

\* CacheMetadata.time_until_expiry
time_until_expiry(m, t) ==
    IF m.last_updated = NotIso THEN Raise
    ELSE Ret(m.last_updated + Hours(m.ttl_hours) - t)

\* Mutant of is_expired: an entry without readable metadata counts as fresh.
is_expired_no_metadata_fresh(f, t, cache_file) ==
    IF ~exists(f, get_data_path(cache_file)) THEN Ret(TRUE)
    ELSE LET metadata == read_metadata(f, cache_file) IN
         IF metadata = None THEN Ret(FALSE)
         ELSE metadata_is_expired(metadata, t)

\* DataCache.is_expired
is_expired(f, t, cache_file) ==
    IF ~exists(f, get_data_path(cache_file)) THEN Ret(TRUE)
    ELSE LET metadata == read_metadata(f, cache_file) IN
         IF metadata = None THEN Ret(TRUE)
         ELSE metadata_is_expired(metadata, t)

\* DataCache.get
get(f, t, cache_file, ignore_expiry) ==
    LET e == IF ignore_expiry THEN Ret(FALSE) ELSE is_expired(f, t, cache_file)
        c == f[get_data_path(cache_file)]
    IN  IF e.exc THEN Raise
        ELSE IF e.val THEN Ret(None)
        ELSE IF ~exists(f, get_data_path(cache_file)) THEN Ret(None)
        ELSE IF c.kind = "corrupt" THEN Ret(None)
        ELSE Ret(c)

\* DataCache.get_cache_info
get_cache_info(f, t, cache_file) ==
    LET metadata == read_metadata(f, cache_file) IN
    IF metadata = None THEN Ret(None)
    ELSE IF ~exists(f, get_data_path(cache_file)) THEN Ret(None)
    ELSE LET r == time_until_expiry(metadata, t) IN
         IF r.exc THEN Raise
         ELSE Ret([kind |-> "info",
                   last_updated |-> metadata.last_updated,
                   ttl_hours |-> metadata.ttl_hours,
                   is_expired |-> metadata_is_expired(metadata, t).val,
                   time_remaining |-> IF r.val > 0 THEN r.val ELSE 0])

\* DataCache._write_metadata
write_metadata(f, t, cache_file) ==
    [f EXCEPT ![get_metadata_path(cache_file)] = MetaDict(t, ttl_hours)]

\* DataCache.set: the data file, then the metadata file.
set(f, t, cache_file, data) ==
    write_metadata([f EXCEPT ![get_data_path(cache_file)] = data], t, cache_file)

\* The crash broken: whenever set dies, the data file is left truncated.
set_interrupted_truncating(f, cache_file, data, stage) ==
    [f EXCEPT ![get_data_path(cache_file)] = Corrupt]

\* DataCache.set cut short by a crash: after open() truncated the data file (1),
\* after the data file was written (2), after open() truncated the metadata file (3).
set_interrupted(f, cache_file, data, stage) ==
    IF stage = 1 THEN [f EXCEPT ![get_data_path(cache_file)] = Corrupt]
    ELSE IF stage = 2 THEN [f EXCEPT ![get_data_path(cache_file)] = data]
    ELSE [f EXCEPT ![get_data_path(cache_file)] = data,
                   ![get_metadata_path(cache_file)] = Corrupt]

\* The outcome of a call that changes the directory.
Done(f) == [exc |-> FALSE, files |-> f]
Failed(f) == [exc |-> TRUE, files |-> f]

\* Path.unlink: FileNotFoundError if there is no such file.
unlink(f, p) ==
    IF exists(f, p) THEN Done([f EXCEPT ![p] = Missing]) ELSE Failed(f)

\* Mutant of invalidate: unlinks both paths without the exists() guards.
invalidate_unguarded(f, cache_file) ==
    LET r1 == unlink(f, get_data_path(cache_file)) IN
    IF r1.exc THEN r1 ELSE unlink(r1.files, get_metadata_path(cache_file))

\* DataCache.invalidate
invalidate(f, cache_file) ==
    LET data_path == get_data_path(cache_file)
        metadata_path == get_metadata_path(cache_file)
        r1 == IF exists(f, data_path) THEN unlink(f, data_path) ELSE Done(f)
    IN  IF r1.exc THEN r1
        ELSE IF exists(r1.files, metadata_path) THEN unlink(r1.files, metadata_path)
        ELSE r1

NoOp == [op |-> "none", key |-> "", exc |-> FALSE]

\* History values of a key.
Never == [kind |-> "never"]
Cleared == [kind |-> "cleared"]
WasSet(d, t) == [kind |-> "set", data |-> d, at |-> t]

(***************************************************************************)
(*                        LOGIN / SESSION STATE                            *)
(***************************************************************************)

\* Request ids: path parameters of /login/{id} and /auth/submit/{id}, uuid4
\* strings of login_to_fpl.
RequestIds == {"r1", "r2"}
\* Session ids (uuid4 strings in web.py).
SessionIds == {"s1", "s2"}
\* FPLClient objects.
Clients == {"c1", "c2"}
\* Error texts handed to set_login_failure.
Errors == {"Could not capture token", "bad credentials"}

\* How many set_login_success coroutines may be suspended at once.
MaxInflight == 1

\* No entry in pending_logins / active_sessions; Python None for the fields.
NoLogin == [status |-> "absent", session_id |-> "None", error |-> "None"]
NoClient == "None"

\* PendingLogin(created_at=time.time()); created_at is never read and is left out.
PendingLogin == [status |-> "pending", session_id |-> "None", error |-> "None"]

\* SessionStore.create_login_request
create_login_request(pl, request_id) ==
    [pl EXCEPT ![request_id] = PendingLogin]

\* SessionStore.set_login_failure
set_login_failure(pl, request_id, error) ==
    IF pl[request_id] # NoLogin
    THEN [pl EXCEPT ![request_id].status = "failed", ![request_id].error = error]
    ELSE pl

\* SessionStore.set_login_success, line 180:
\* self.pending_logins[request_id].status = "success"
set_status_success(pl, request_id) ==
    [pl EXCEPT ![request_id].status = "success"]

\* SessionStore.set_login_success, line 181:
\* self.pending_logins[request_id].session_id = session_id
set_session_id(pl, request_id, session_id) ==
    [pl EXCEPT ![request_id].session_id = session_id]

\* SessionStore.set_login_success, line 168: self.active_sessions[session_id] = client
register_session(as, session_id, client) == [as EXCEPT ![session_id] = client]

\* SessionStore.get_client
get_client(as, session_id) ==
    IF session_id \in DOMAIN as THEN as[session_id] ELSE NoClient

\* _get_client broken: without an active session id it falls back to the
\* first session the store holds.
tool_get_client_fallback(as, sid) ==
    IF sid = "None"
    THEN IF \E x \in DOMAIN as : as[x] # NoClient
         THEN as[CHOOSE x \in DOMAIN as : as[x] # NoClient] ELSE NoClient
    ELSE get_client(as, sid)

\* mcp_tools._get_client
tool_get_client(as, sid) ==
    IF sid = "None" THEN NoClient ELSE get_client(as, sid)

\* check_login_status broken: an unknown id is given a fresh record and
\* reported like a pending one.
check_login_status_creating(pl, as, ui, sid, request_id) ==
    [text |-> "Login pending", sid |-> sid, logins |-> create_login_request(pl, request_id)]

\* mcp_tools.check_login_status: the text returned (with the error it quotes
\* for a failed request), the new _active_session_id, and pending_logins
\* after the call (`.get` inserts nothing).
check_login_status(pl, as, ui, sid, request_id) ==
    LET req == IF request_id \in DOMAIN pl THEN pl[request_id] ELSE NoLogin IN
    IF req = NoLogin THEN [text |-> "Error: Invalid Request ID", sid |-> sid, logins |-> pl]
    ELSE IF req.status = "pending" THEN [text |-> "Login pending", sid |-> sid, logins |-> pl]
    ELSE IF req.status = "failed"
    THEN [text |-> "Login failed", error |-> req.error, sid |-> sid, logins |-> pl]
    ELSE LET client == tool_get_client(as, req.session_id) IN
         IF client # NoClient /\ ui[client] # "None"
         THEN [text |-> "Authentication Successful, entry loaded", sid |-> req.session_id,
               logins |-> pl]
         ELSE [text |-> "Authentication Successful", sid |-> req.session_id, logins |-> pl]

NoSubmit == [id |-> "None", outcome |-> "none"]

\* SessionStore.__init__ and the module-level _active_session_id = None.
LoginIdle ==
    /\ pending_logins = [r \in RequestIds |-> NoLogin]
    /\ active_sessions = [s \in SessionIds |-> NoClient]
    /\ user_info = [c \in Clients |-> "None"]
    /\ active_session_id = "None"
    /\ inflight = {}
    /\ lastSubmit = NoSubmit

\* SessionStore.__init__ when _load_bootstrap_data finds nothing in the cache:
\* bootstrap_data is None and both indices are empty.
NoBootstrap == [loaded |-> FALSE, elements |-> <<>>]
NoCall == [op |-> "none"]
ResolverIdle ==
    /\ bootstrap_data = NoBootstrap
    /\ player_name_map = <<>>
    /\ lastCall = NoCall

\* DataCache.__init__ on an empty directory.
CacheEmpty ==
    /\ files = [p \in Paths |-> Missing]
    /\ now = 0
    /\ written = [k \in Keys |-> Never]
    /\ lastOp = NoOp

InitCache == CacheEmpty /\ LoginIdle /\ ResolverIdle

\* cache.set(k, d) at the current time
Set(k, d) ==
    /\ files' = set(files, now, k, d)
    /\ written' = [written EXCEPT ![k] = WasSet(d, now)]
    /\ lastOp' = [op |-> "set", key |-> k, exc |-> FALSE]
    /\ UNCHANGED <<now, loginVars, resolverVars>>

\* cache.set(k, d) during which the process dies
SetInterrupted(k, d, stage) ==
    /\ files' = set_interrupted(files, k, d, stage)
    /\ written' = [written EXCEPT ![k] = Cleared]
    /\ lastOp' = [op |-> "set_interrupted", key |-> k, exc |-> TRUE]
    /\ UNCHANGED <<now, loginVars, resolverVars>>

\* cache.invalidate(k)
Invalidate(k) ==
    /\ files' = invalidate(files, k).files
    /\ written' = [written EXCEPT ![k] = IF written[k] = Never THEN Never ELSE Cleared]
    /\ lastOp' = [op |-> "invalidate", key |-> k, exc |-> invalidate(files, k).exc]
    /\ UNCHANGED <<now, loginVars, resolverVars>>

\* Wall-clock time passes.
Tick ==
    /\ \E t \in Instants : t > now /\ now' = t
    /\ UNCHANGED <<files, written, lastOp, loginVars, resolverVars>>

NextCache ==
    \/ \E k \in Keys, d \in JsonVals : Set(k, d)
    \/ \E k \in Keys, d \in JsonVals, stage \in 1..3 : SetInterrupted(k, d, stage)
    \/ \E k \in Keys : Invalidate(k)
    \/ Tick

CacheSpec == InitCache /\ [][NextCache]_vars

(***************************************************************************)
(*                    LOGIN / SESSION STATE MACHINE                        *)
(***************************************************************************)

\* mcp_tools.login_to_fpl: a fresh uuid4 request id.
LoginToFpl(r) ==
    /\ pending_logins[r] = NoLogin
    /\ pending_logins' = create_login_request(pending_logins, r)
    /\ lastSubmit' = NoSubmit
    /\ UNCHANGED <<active_sessions, user_info, active_session_id, inflight, cacheVars, resolverVars>>

\* web.login_page: GET /login/{request_id}, for any id in the URL.
LoginPage(r) ==
    /\ pending_logins' = create_login_request(pending_logins, r)
    /\ lastSubmit' = NoSubmit
    /\ UNCHANGED <<active_sessions, user_info, active_session_id, inflight, cacheVars, resolverVars>>

\* web.submit_login: POST /auth/submit/{request_id}. outcome is what
\* login_and_get_token did: "token", "no_token" (falsy token) or "exception".
\* With a token the handler calls store.set_login_success(...) without await:
\* the coroutine object is discarded and its body never runs.
SubmitLogin(r, outcome, e) ==
    /\ pending_logins' =
          IF outcome = "token" THEN pending_logins
          ELSE IF outcome = "no_token"
          THEN set_login_failure(pending_logins, r, "Could not capture token")
          ELSE set_login_failure(pending_logins, r, e)
    /\ lastSubmit' = IF pending_logins[r].status = "pending"
                     THEN [id |-> r, outcome |-> outcome] ELSE NoSubmit
    /\ UNCHANGED <<active_sessions, user_info, active_session_id, inflight, cacheVars, resolverVars>>

\* The web server runs on its own thread (main.py:38-39) and the MCP tools on
\* the main thread, so the statements of set_login_success interleave with
\* the tools one by one. A call in flight is recorded with the statement it
\* runs next: "get_me" (suspended in the await), "status" (lines 179-180) or
\* "session_id" (line 181).
Call(r, s, c, stage) == [request_id |-> r, session_id |-> s, client |-> c, stage |-> stage]

\* The call with its next statement changed.
at_stage(call, stage) == Call(call.request_id, call.session_id, call.client, stage)

\* await store.set_login_success(r, s, c), up to the suspension in
\* `await client.get_me()` (line 168 has run). As at the call site
\* (web.py:64-65) s is a fresh uuid4 and c a new FPLClient().
SetLoginSuccessBegin(r, s, c) ==
    /\ Cardinality(inflight) < MaxInflight
    /\ active_sessions[s] = NoClient
    /\ \A x \in SessionIds : active_sessions[x] # c
    /\ active_sessions' = register_session(active_sessions, s, c)
    /\ inflight' = inflight \cup {Call(r, s, c, "get_me")}
    /\ lastSubmit' = NoSubmit
    /\ UNCHANGED <<pending_logins, user_info, active_session_id, cacheVars, resolverVars>>

\* set_login_success resumed: get_me returned user data ("ok", line 173
\* stores it in the client) or raised ("error", logged).
SetLoginSuccessResume(call, me) ==
    /\ call \in inflight
    /\ call.stage = "get_me"
    /\ inflight' = (inflight \ {call}) \cup {at_stage(call, "status")}
    /\ user_info' = IF me = "ok" THEN [user_info EXCEPT ![call.client] = "user_data"]
                    ELSE user_info
    /\ lastSubmit' = NoSubmit
    /\ UNCHANGED <<pending_logins, active_sessions, active_session_id, cacheVars, resolverVars>>

\* Lines 179-180: an unknown request id ends the call, a known one gets its
\* status written.
SetLoginSuccessStatus(call) ==
    /\ call \in inflight
    /\ call.stage = "status"
    /\ IF pending_logins[call.request_id] # NoLogin
       THEN /\ pending_logins' = set_status_success(pending_logins, call.request_id)
            /\ inflight' = (inflight \ {call}) \cup {at_stage(call, "session_id")}
       ELSE /\ pending_logins' = pending_logins
            /\ inflight' = inflight \ {call}
    /\ lastSubmit' = NoSubmit
    /\ UNCHANGED <<active_sessions, user_info, active_session_id, cacheVars, resolverVars>>

\* Line 181, after which the call returns.
SetLoginSuccessSessionId(call) ==
    /\ call \in inflight
    /\ call.stage = "session_id"
    /\ pending_logins' = set_session_id(pending_logins, call.request_id, call.session_id)
    /\ inflight' = inflight \ {call}
    /\ lastSubmit' = NoSubmit
    /\ UNCHANGED <<active_sessions, user_info, active_session_id, cacheVars, resolverVars>>

\* store.set_login_failure(r, e)
SetLoginFailure(r, e) ==
    /\ pending_logins' = set_login_failure(pending_logins, r, e)
    /\ lastSubmit' = NoSubmit
    /\ UNCHANGED <<active_sessions, user_info, active_session_id, inflight, cacheVars, resolverVars>>

\* mcp_tools.check_login_status(r)
CheckLoginStatus(r) ==
    LET res == check_login_status(pending_logins, active_sessions, user_info,
                                  active_session_id, r) IN
    /\ active_session_id' = res.sid
    /\ pending_logins' = res.logins
    /\ lastSubmit' = NoSubmit
    /\ UNCHANGED <<active_sessions, user_info, inflight, cacheVars, resolverVars>>

InitLogin == CacheEmpty /\ LoginIdle /\ ResolverIdle

NextLogin ==
    \/ \E r \in RequestIds : LoginToFpl(r)
    \/ \E r \in RequestIds : LoginPage(r)
    \/ \E r \in RequestIds, o \in {"token", "no_token", "exception"}, e \in Errors :
          SubmitLogin(r, o, e)
    \/ \E r \in RequestIds, s \in SessionIds, c \in Clients : SetLoginSuccessBegin(r, s, c)
    \/ \E call \in inflight, me \in {"ok", "error"} : SetLoginSuccessResume(call, me)
    \/ \E call \in inflight : SetLoginSuccessStatus(call)
    \/ \E call \in inflight : SetLoginSuccessSessionId(call)
    \/ \E r \in RequestIds, e \in Errors : SetLoginFailure(r, e)
    \/ \E r \in RequestIds : CheckLoginStatus(r)

LoginSpec == InitLogin /\ [][NextLogin]_vars

(***************************************************************************)
(*                        CLAIMS ABOUT THE CACHE                           *)
(***************************************************************************)

\* Exactly one of the data file and the metadata file of key k exists.
HalfEntry(k) ==
    exists(files, get_data_path(k)) # exists(files, get_metadata_path(k))

\* What json.load yields for the data file of k (None for a corrupt file).
Loaded(k) ==
    LET c == files[get_data_path(k)] IN
    IF c.kind = "corrupt" \/ c.kind = "missing" THEN None ELSE c

\* C4 (as stated): after set(K, D) with no later set or invalidate of K, get(K)
\* returns D while now - T <= ttl_hours; once now - T > ttl_hours, get(K) is
\* absent and get(K, ignore_expiry=True) still returns D.
C4_SetThenGet ==
    \A k \in Keys :
        written[k].kind = "set" =>
            LET d == written[k].data
                elapsed == now - written[k].at
            IN  /\ elapsed <= Hours(ttl_hours) => get(files, now, k, FALSE) = Ret(d)
                /\ elapsed > Hours(ttl_hours) =>
                        /\ get(files, now, k, FALSE) = Ret(None)
                        /\ get(files, now, k, TRUE) = Ret(d)

\* C6 (as stated): a key with exactly one of its two files is absent for every
\* read: get for both values of ignore_expiry, is_expired, get_cache_info.
C6_HalfEntryAbsent ==
    \A k \in Keys :
        HalfEntry(k) =>
            /\ get(files, now, k, FALSE) = Ret(None)
            /\ get(files, now, k, TRUE) = Ret(None)
            /\ is_expired(files, now, k) = Ret(TRUE)
            /\ get_cache_info(files, now, k) = Ret(None)

\* C6 (amended): a key with exactly one of its two files is absent for
\* get(key), is_expired(key) is true and get_cache_info(key) is None;
\* get(key, ignore_expiry=True) is absent when the data file is the missing
\* half, and returns the parsed data file when the metadata is the missing half.
C6_HalfEntryAbsentUnlessIgnoreExpiry ==
    \A k \in Keys :
        HalfEntry(k) =>
            /\ get(files, now, k, FALSE) = Ret(None)
            /\ is_expired(files, now, k) = Ret(TRUE)
            /\ get_cache_info(files, now, k) = Ret(None)
            /\ get(files, now, k, TRUE) = Ret(Loaded(k))

\* C6 witness: one key has only a readable data file and is still returned
\* under ignore_expiry, another key has only its metadata file.
C6_Witness ==
    /\ \E k \in Keys :
            /\ exists(files, get_data_path(k))
            /\ ~exists(files, get_metadata_path(k))
            /\ get(files, now, k, TRUE) # Ret(None)
    /\ \E k \in Keys :
            /\ ~exists(files, get_data_path(k))
            /\ exists(files, get_metadata_path(k))

\* The metadata file of k is missing, or not parseable as metadata with an
\* ISO-8601 last_updated.
MetadataUnusable(k) ==
    LET c == files[get_metadata_path(k)] IN
    c.kind # "metadata" \/ c.last_updated = NotIso

\* C7 (as stated): no read path raises, and is_expired is true and get absent
\* whenever the data is missing or the metadata is missing or unparseable.
C7_ReadsNeverRaise ==
    \A k \in Keys :
        /\ ~is_expired(files, now, k).exc
        /\ ~get(files, now, k, FALSE).exc
        /\ ~get(files, now, k, TRUE).exc
        /\ (~exists(files, get_data_path(k)) \/ MetadataUnusable(k)) =>
                /\ is_expired(files, now, k) = Ret(TRUE)
                /\ get(files, now, k, FALSE) = Ret(None)

\* C8 (as stated): is_expired(K) is true for every key K never passed to set.
C8_NeverWrittenExpired ==
    \A k \in Keys :
        written[k] = Never => is_expired(files, now, k) = Ret(TRUE)

\* C9: after invalidate(K) returns, it has not raised, neither file of K
\* exists, get(K) is absent for both values of ignore_expiry, is_expired(K) is
\* true, and a further invalidate(K) neither raises nor changes the directory.
C9_InvalidateRemovesBoth ==
    lastOp.op = "invalidate" =>
        LET k == lastOp.key IN
        /\ ~lastOp.exc
        /\ ~exists(files, get_data_path(k))
        /\ ~exists(files, get_metadata_path(k))
        /\ get(files, now, k, FALSE) = Ret(None)
        /\ get(files, now, k, TRUE) = Ret(None)
        /\ is_expired(files, now, k) = Ret(TRUE)
        /\ invalidate(files, k) = Done(files)

\* C9 witness: invalidate has just removed an entry that set() had stored,
\* while another key still has its entry.
C9_Witness ==
    /\ lastOp.op = "invalidate"
    /\ written[lastOp.key] = Cleared
    /\ \E k \in Keys : written[k].kind = "set" /\ get(files, now, k, FALSE) # Ret(None)

(***************************************************************************)
(*                   CLAIMS ABOUT THE LOGIN STATE MACHINE                  *)
(***************************************************************************)

Terminal(login) == login.status \in {"success", "failed"}

\* C2 (as stated): once a login request is success or failed, no call changes
\* its status, session_id or error.
C2_TerminalIsFinal ==
    [][\A r \in RequestIds :
          Terminal(pending_logins[r]) => pending_logins'[r] = pending_logins[r]]_vars

\* C3 (as stated): when submit_login has run for a pending request, the
\* request has left pending: it is success with its session id registered in
\* active_sessions if a token was obtained, and failed otherwise.
C3_SubmitCompletes ==
    lastSubmit # NoSubmit =>
        LET login == pending_logins[lastSubmit.id] IN
        IF lastSubmit.outcome = "token"
        THEN /\ login.status = "success"
             /\ login.session_id \in SessionIds
             /\ active_sessions[login.session_id] # NoClient
        ELSE login.status = "failed"

\* Every request in status success names a session that active_sessions
\* binds to a client.
SuccessHasSession ==
    \A r \in RequestIds :
        pending_logins[r].status = "success" =>
            /\ pending_logins[r].session_id \in SessionIds
            /\ active_sessions[pending_logins[r].session_id] \in Clients

\* A set_login_success call that returns on an existing request leaves the
\* request in success with the call's session id, bound to the call's client.
CompletionBindsClient ==
    \A call \in inflight :
        (call \notin inflight' /\ pending_logins[call.request_id] # NoLogin) =>
            /\ pending_logins'[call.request_id].status = "success"
            /\ pending_logins'[call.request_id].session_id = call.session_id
            /\ active_sessions'[call.session_id] = call.client

\* An entry of active_sessions is never removed or rebound.
SessionsPermanent ==
    \A x \in SessionIds :
        active_sessions[x] # NoClient => active_sessions'[x] = active_sessions[x]

StatusOf(r) ==
    check_login_status(pending_logins, active_sessions, user_info, active_session_id, r)

\* What check_login_status(r) returns once set_login_failure(r, e) has run.
StatusAfterFailure(r, e) ==
    check_login_status(set_login_failure(pending_logins, r, e), active_sessions,
                       user_info, active_session_id, r)

\* C15: check_login_status(id) answers 'Invalid Request ID' for an id never
\* created, and creates no record for it; 'pending' for an id created and not
\* completed; 'failed' with the stored error for a failed id, which is exactly
\* the message handed to set_login_failure.
C15_StatusReportsStoredState ==
    \A r \in RequestIds :
        /\ StatusOf(r).logins = pending_logins
        /\ pending_logins[r] = NoLogin => StatusOf(r).text = "Error: Invalid Request ID"
        /\ pending_logins[r].status = "pending" => StatusOf(r).text = "Login pending"
        /\ pending_logins[r].status = "failed" =>
               /\ StatusOf(r).text = "Login failed"
               /\ StatusOf(r).error = pending_logins[r].error
        /\ pending_logins[r] # NoLogin =>
               \A e \in Errors :
                   /\ StatusAfterFailure(r, e).text = "Login failed"
                   /\ StatusAfterFailure(r, e).error = e

\* C15 witness: one request has failed with 'bad credentials' and is reported
\* so, while the other id was never created and is reported invalid.
C15_Witness ==
    \E r, u \in RequestIds :
        /\ pending_logins[r].status = "failed"
        /\ StatusOf(r).error = "bad credentials"
        /\ pending_logins[u] = NoLogin
        /\ StatusOf(u).text = "Error: Invalid Request ID"

(***************************************************************************)
(*                    NAME INDEX AND FUZZY RESOLVER                        *)
(*                                                                         *)
(* Names are strings; Len, SubSeq and \o act on them character-wise.       *)
(* Scores are exact rationals [n, d] (d > 0) compared by cross             *)
(* multiplication.                                                         *)
(***************************************************************************)

UpperCase == "ABCDEFGHIJKLMNOPQRSTUVWXYZ"
LowerCase == "abcdefghijklmnopqrstuvwxyz"

\* s[i] (1-based) and s[i:] of Python
Ch(s, i) == SubSeq(s, i, i)
From(s, i) == SubSeq(s, i, Len(s))

\* str.lower() of one character
lower_char(c) ==
    IF \E i \in 1..Len(UpperCase) : Ch(UpperCase, i) = c
    THEN Ch(LowerCase, CHOOSE i \in 1..Len(UpperCase) : Ch(UpperCase, i) = c)
    ELSE c

\* str.lower()
RECURSIVE lower(_)
lower(s) == IF Len(s) = 0 THEN "" ELSE lower_char(Ch(s, 1)) \o lower(From(s, 2))

\* str.split() (after strip()): the maximal runs without whitespace.
\* word is the run being read, words the runs already closed.
RECURSIVE split(_, _, _)
split(s, word, words) ==
    IF Len(s) = 0 THEN (IF Len(word) = 0 THEN words ELSE Append(words, word))
    ELSE IF Ch(s, 1) = " "
         THEN split(From(s, 2), "", IF Len(word) = 0 THEN words ELSE Append(words, word))
         ELSE split(From(s, 2), word \o Ch(s, 1), words)

\* " ".join(words)
RECURSIVE join(_)
join(words) ==
    IF Len(words) = 0 THEN ""
    ELSE IF Len(words) = 1 THEN words[1]
    ELSE (words[1] \o " ") \o join(Tail(words))

\* SessionStore._normalize_name
normalize_name(name) == join(split(lower(name), "", <<>>))

\* `in` broken: the empty string is found in nothing.
contains_nonempty(hay, needle) ==
    /\ Len(needle) > 0
    /\ \E i \in 1..(Len(hay) - Len(needle) + 1) :
          SubSeq(hay, i, i + Len(needle) - 1) = needle

\* Python `needle in hay` on strings
contains(hay, needle) ==
    \/ Len(needle) = 0
    \/ \E i \in 1..(Len(hay) - Len(needle) + 1) :
          SubSeq(hay, i, i + Len(needle) - 1) = needle

\* One ElementData: the fields the index reads.
Element(id, web_name, first_name, second_name) ==
    [id |-> id, web_name |-> web_name, first_name |-> first_name,
     second_name |-> second_name]

\* Position of key in the index, 0 if absent (dict lookup).
key_index(map, key) ==
    IF \E k \in 1..Len(map) : map[k].key = key
    THEN CHOOSE k \in 1..Len(map) : map[k].key = key
    ELSE 0

\* `x in list`
in_list(list, x) == \E i \in 1..Len(list) : list[i] = x

\* The idiom broken: the id is appended whether or not the key holds it.
add_key_always(map, key, id, unless_present) ==
    IF \E k \in 1..Len(map) : map[k].key = key
    THEN [map EXCEPT ![CHOOSE k \in 1..Len(map) : map[k].key = key].ids = Append(@, id)]
    ELSE Append(map, [key |-> key, ids |-> <<id>>])

\* The four-line idiom of _build_player_indices: create the key's list if the
\* key is new, then append the id; unless_present is the
\* `if element.id not in self.player_name_map[key]` the web-name key lacks.
add_key(map, key, id, unless_present) ==
    LET k == key_index(map, key) IN
    IF k = 0 THEN Append(map, [key |-> key, ids |-> <<id>>])
    ELSE IF unless_present /\ in_list(map[k].ids, id) THEN map
    ELSE [map EXCEPT ![k].ids = Append(@, id)]

\* The body of the loop of _build_player_indices for one element.
index_element(map, element) ==
    LET web == add_key(map, normalize_name(element.web_name), element.id, FALSE)
        full == add_key(web,
                    normalize_name((element.first_name \o " ") \o element.second_name),
                    element.id, TRUE)
        surname == add_key(full, normalize_name(element.second_name), element.id, TRUE)
    IN  IF Len(element.first_name) > 0 /\ element.web_name # element.second_name
        THEN add_key(surname,
                 normalize_name((element.first_name \o " ") \o element.web_name),
                 element.id, TRUE)
        ELSE surname

\* SessionStore._build_player_indices: player_name_map after the loop
\* (cleared first); elements from position i on are still to be indexed.
RECURSIVE index_elements(_, _, _)
index_elements(map, elements, i) ==
    IF i > Len(elements) THEN map
    ELSE index_elements(index_element(map, elements[i]), elements, i + 1)

\* SessionStore._build_player_indices, line 98: the keys of player_id_map
\* after the loop over the elements.
player_id_map_keys(elements) == {elements[i].id : i \in 1..Len(elements)}

\* The build broken: the index is not cleared before the loop.
build_without_clear(map, bootstrap) ==
    IF ~bootstrap.loaded THEN map ELSE index_elements(map, bootstrap.elements, 1)

build_player_indices(map, bootstrap) ==
    IF ~bootstrap.loaded THEN map ELSE index_elements(<<>>, bootstrap.elements, 1)

\* Rational scores.
Frac(n, d) == [n |-> n, d |-> d]
One == Frac(1, 1)
Lt(x, y) == x.n * y.d < y.n * x.d
Eq(x, y) == x.n * y.d = y.n * x.d
Ge(x, y) == ~Lt(x, y)
Gt(x, y) == Lt(y, x)
Times(x, y) == Frac(x.n * y.n, x.d * y.d)
Minus(x, y) == Frac(x.n * y.d - y.n * x.d, x.d * y.d)

\* The thresholds and tier factors written in find_players_by_name and in
\* the tools' selection rules.
substring_factor == Frac(9, 10)
fuzzy_factor == Frac(8, 10)
good_match == Frac(7, 10)
fuzzy_threshold == Frac(6, 10)
confident == Frac(95, 100)
clear_gap == Frac(2, 10)

Min(x, y) == IF x < y THEN x ELSE y
Max(x, y) == IF x < y THEN y ELSE x

\* difflib: how far a[i..] and b[j..] agree inside a[..ahi], b[..bhi].
RECURSIVE run(_, _, _, _, _, _)
run(a, i, ahi, b, j, bhi) ==
    IF i > ahi \/ j > bhi THEN 0
    ELSE IF Ch(a, i) # Ch(b, j) THEN 0
    ELSE 1 + run(a, i + 1, ahi, b, j + 1, bhi)

\* difflib.SequenceMatcher.find_longest_match without junk, on the 1-based
\* closed ranges a[alo..ahi], b[blo..bhi]: the longest block; of those the
\* one starting earliest in a; of those the one starting earliest in b.
\* run_lengths is the table of run() over all pairs of starts.
run_lengths(a, alo, ahi, b, blo, bhi) ==
    [s \in (alo..ahi) \X (blo..bhi) |-> run(a, s[1], ahi, b, s[2], bhi)]

longest(runs) ==
    CHOOSE k \in {runs[s] : s \in DOMAIN runs} : \A s \in DOMAIN runs : runs[s] <= k

earliest(starts) ==
    CHOOSE s \in starts :
        \A t \in starts : s[1] < t[1] \/ (s[1] = t[1] /\ s[2] <= t[2])

block(start, size) == [a |-> start[1], b |-> start[2], size |-> size]

longest_block(runs, size) ==
    block(earliest({s \in DOMAIN runs : runs[s] = size}), size)

longest_block_of(runs) == longest_block(runs, longest(runs))

find_longest_match(a, alo, ahi, b, blo, bhi) ==
    longest_block_of(run_lengths(a, alo, ahi, b, blo, bhi))

\* difflib.SequenceMatcher.get_matching_blocks: the total size of the blocks
\* found by splitting around the longest match m, left and right.
RECURSIVE matching_size(_, _, _, _, _, _)
split_around(a, alo, ahi, b, blo, bhi, m) ==
    IF m.size = 0 THEN 0
    ELSE m.size
         + matching_size(a, alo, m.a - 1, b, blo, m.b - 1)
         + matching_size(a, m.a + m.size, ahi, b, m.b + m.size, bhi)

matching_size(a, alo, ahi, b, blo, bhi) ==
    IF alo > ahi \/ blo > bhi THEN 0
    ELSE split_around(a, alo, ahi, b, blo, bhi,
                      find_longest_match(a, alo, ahi, b, blo, bhi))

\* difflib.SequenceMatcher(None, a, b).ratio(): 2.0 * matches / (len(a) + len(b)),
\* 1.0 when both are empty.
ratio(a, b) ==
    IF Len(a) + Len(b) = 0 THEN One
    ELSE Frac(2 * matching_size(a, 1, Len(a), b, 1, Len(b)), Len(a) + Len(b))

\* The results dict (player id -> score), in insertion order.
has(results, player_id) == \E i \in 1..Len(results) : results[i].id = player_id
score_of(results, player_id) ==
    results[CHOOSE i \in 1..Len(results) : results[i].id = player_id].score
put(results, player_id, score) ==
    IF has(results, player_id)
    THEN [i \in 1..Len(results) |->
             IF results[i].id = player_id THEN [id |-> player_id, score |-> score]
             ELSE results[i]]
    ELSE Append(results, [id |-> player_id, score |-> score])

\* Tier 1 broken: only the first player under the key is taken.
RECURSIVE exact_first_only(_, _, _)
exact_first_only(results, player_ids, i) ==
    IF i > 1 THEN results
    ELSE exact_first_only(put(results, player_ids[i], One), player_ids, i + 1)

\* Tier 1: `for player_id in self.player_name_map[normalized_query]:
\*              results[player_id] = 1.0`
RECURSIVE exact_ids(_, _, _)
exact_ids(results, player_ids, i) ==
    IF i > Len(player_ids) THEN results
    ELSE exact_ids(put(results, player_ids[i], One), player_ids, i + 1)

exact_tier(map, normalized_query) ==
    LET k == key_index(map, normalized_query) IN
    IF k = 0 THEN <<>> ELSE exact_ids(<<>>, map[k].ids, 1)

\* The inner loop shared by tiers 2 and 3:
\*   if player_id not in results or similarity > results[player_id]:
\*       results[player_id] = similarity * factor
\* the unscaled similarity is compared with the stored, scaled score.
RECURSIVE keep_better(_, _, _, _, _)
keep_better(results, player_ids, i, similarity, factor) ==
    IF i > Len(player_ids) THEN results
    ELSE LET player_id == player_ids[i] IN
         keep_better(
             IF ~has(results, player_id) \/ Gt(similarity, score_of(results, player_id))
             THEN put(results, player_id, Times(similarity, factor))
             ELSE results,
             player_ids, i + 1, similarity, factor)

\* min(len(q), len(key)) / max(len(q), len(key)); reached only when one
\* contains the other and they differ, so the maximum is positive.
length_ratio(normalized_query, name_key) ==
    Frac(Min(Len(normalized_query), Len(name_key)),
         Max(Len(normalized_query), Len(name_key)))

\* Tier 2: the loop over player_name_map.items(), from key k on.
RECURSIVE substring_tier(_, _, _, _)
substring_tier(results, map, k, normalized_query) ==
    IF k > Len(map) THEN results
    ELSE LET name_key == map[k].key IN
         substring_tier(
             IF contains(name_key, normalized_query) \/ contains(normalized_query, name_key)
             THEN keep_better(results, map[k].ids, 1,
                              length_ratio(normalized_query, name_key), substring_factor)
             ELSE results,
             map, k + 1, normalized_query)

\* Tier 3 broken: a fuzzy match is scored like an exact match.
fuzzy_key_as_exact(results, player_ids, similarity) ==
    IF Ge(similarity, fuzzy_threshold) THEN exact_ids(results, player_ids, 1)
    ELSE results

\* Tier 3, one key: `if similarity >= 0.6:` and the inner loop.
fuzzy_key(results, player_ids, similarity) ==
    IF Ge(similarity, fuzzy_threshold)
    THEN keep_better(results, player_ids, 1, similarity, fuzzy_factor)
    ELSE results

\* Tier 3: the loop over player_name_map.items(), from key k on.
RECURSIVE fuzzy_tier(_, _, _, _)
fuzzy_tier(results, map, k, normalized_query) ==
    IF k > Len(map) THEN results
    ELSE fuzzy_tier(fuzzy_key(results, map[k].ids, ratio(normalized_query, map[k].key)),
                    map, k + 1, normalized_query)

\* max(results.values())
max_score(results) ==
    results[CHOOSE i \in 1..Len(results) :
                \A j \in 1..Len(results) : Ge(results[i].score, results[j].score)].score

\* The sort broken: descending, but equal scores come out in reverse order
\* (an ascending sort that is then reversed).
RECURSIVE sorted_reversing_ties(_, _, _)
sorted_reversing_ties(results, i, out) ==
    IF i > Len(results) THEN out
    ELSE LET x == results[i]
             ahead == Cardinality({j \in 1..Len(out) : Gt(out[j].score, x.score)})
         IN  sorted_reversing_ties(results, i + 1,
                 SubSeq(out, 1, ahead) \o <<x>> \o SubSeq(out, ahead + 1, Len(out)))

\* list.sort(key=score, reverse=True): stable, descending. Insertion of
\* results[i] behind every entry that does not score lower.
RECURSIVE sorted_by_score(_, _, _)
sorted_by_score(results, i, out) ==
    IF i > Len(results) THEN out
    ELSE LET x == results[i]
             ahead == Cardinality({j \in 1..Len(out) : Ge(out[j].score, x.score)})
         IN  sorted_by_score(results, i + 1,
                 SubSeq(out, 1, ahead) \o <<x>> \o SubSeq(out, ahead + 1, Len(out)))

\* The guard of tier 2 broken: the substring tier always runs.
skip_substring_never(results) == FALSE

\* `if not results:` guarding tier 2
skip_substring_tier(results) == Len(results) > 0

\* Line 257 raises ZeroDivisionError: the substring tier runs and reaches a
\* key for which max(len(normalized_query), len(name_key)) is 0.
zero_division(results, map, normalized_query) ==
    /\ ~skip_substring_tier(results)
    /\ \E k \in 1..Len(map) :
           /\ contains(map[k].key, normalized_query) \/ contains(normalized_query, map[k].key)
           /\ Max(Len(normalized_query), Len(map[k].key)) = 0

\* The guard of tier 3 broken: the fuzzy flag is not looked at.
run_fuzzy_ignoring_flag(results, fuzzy) ==
    Len(results) = 0 \/ Lt(max_score(results), good_match)

\* `if fuzzy and (not results or max(results.values()) < 0.7):`
run_fuzzy_tier(results, fuzzy) ==
    fuzzy /\ (Len(results) = 0 \/ Lt(max_score(results), good_match))

\* "# 2. Substring match (contains)" on the results of tier 1
with_substring(results, map, normalized_query) ==
    IF skip_substring_tier(results) THEN results
    ELSE substring_tier(results, map, 1, normalized_query)

\* "# 3. Fuzzy matching (if enabled and no good matches yet)"
with_fuzzy(results, map, normalized_query, fuzzy) ==
    IF run_fuzzy_tier(results, fuzzy) THEN fuzzy_tier(results, map, 1, normalized_query)
    ELSE results

\* The three tiers and the final sort, on the normalized query.
ranked(map, normalized_query, fuzzy) ==
    sorted_by_score(
        with_fuzzy(with_substring(exact_tier(map, normalized_query), map, normalized_query),
                   map, normalized_query, fuzzy),
        1, <<>>)

\* SessionStore.find_players_by_name: the list of (player id, score).
find_players_by_name(bootstrap, map, name_query, fuzzy) ==
    IF ~bootstrap.loaded THEN <<>>
    ELSE ranked(map, normalize_name(name_query), fuzzy)

(***************************************************************************)
(*                 THE TOOLS THAT RESOLVE A PLAYER NAME                    *)
(*                                                                         *)
(* A tool's result is [outcome, resolutions]: for every name it resolved,  *)
(* the candidate list and the player it went on with (NoPlayer if none).   *)
(* What the tool does with a selected player (formatting, API calls) is    *)
(* not modelled.                                                           *)
(***************************************************************************)

NoPlayer == 0

Resolution(name, matches, picked) ==
    [name |-> name, matches |-> matches, picked |-> picked]
Outcome(outcome, resolutions) == [outcome |-> outcome, resolutions |-> resolutions]

\* The selection rule broken: the first candidate always wins.
clear_winner_always(matches) == TRUE

\* find_player, line 766 (compare_players, line 837, adds a redundant
\* len(matches) > 1):
\*   len(matches) == 1 or (matches[0][1] >= 0.95 and matches[0][1] - matches[1][1] > 0.2)
clear_winner(matches) ==
    \/ Len(matches) = 1
    \/ /\ Ge(matches[1].score, confident)
       /\ Len(matches) > 1
       /\ Gt(Minus(matches[1].score, matches[2].score), clear_gap)

\* get_player_details line 802, get_player_summary line 946, make_transfers
\* lines 241 and 249, fpl://player line 201:
\*   len(matches) > 1 and matches[0][1] < 0.95
low_confidence(matches) ==
    Len(matches) > 1 /\ Lt(matches[1].score, confident)

\* What find_player does with the candidate list.
pick_clear_winner(player_name, matches) ==
    IF Len(matches) = 0
    THEN Outcome("not_found", <<Resolution(player_name, matches, NoPlayer)>>)
    ELSE IF clear_winner(matches)
    THEN Outcome("selected", <<Resolution(player_name, matches, matches[1].id)>>)
    ELSE Outcome("ambiguous", <<Resolution(player_name, matches, NoPlayer)>>)

\* What get_player_details (lines 799-806), get_player_summary (lines
\* 942-949) and fpl://player (lines 198-215) do with the candidate list.
pick_unless_low_confidence(player_name, matches) ==
    IF Len(matches) = 0
    THEN Outcome("not_found", <<Resolution(player_name, matches, NoPlayer)>>)
    ELSE IF low_confidence(matches)
    THEN Outcome("ambiguous", <<Resolution(player_name, matches, NoPlayer)>>)
    ELSE Outcome("selected", <<Resolution(player_name, matches, matches[1].id)>>)

\* mcp_tools.find_player
find_player(client, bootstrap, map, player_name) ==
    IF client = NoClient THEN Outcome("not_authenticated", <<>>)
    ELSE IF ~bootstrap.loaded THEN Outcome("no_data", <<>>)
    ELSE pick_clear_winner(player_name,
             find_players_by_name(bootstrap, map, player_name, TRUE))

\* mcp_tools.get_player_details
get_player_details(client, bootstrap, map, player_name) ==
    IF client = NoClient THEN Outcome("not_authenticated", <<>>)
    ELSE pick_unless_low_confidence(player_name,
             find_players_by_name(bootstrap, map, player_name, TRUE))

\* mcp_tools.get_player_summary, up to `player_id = player.id`; the element
\* summary it then fetches is not modelled.
get_player_summary(client, bootstrap, map, player_name) ==
    IF client = NoClient THEN Outcome("not_authenticated", <<>>)
    ELSE pick_unless_low_confidence(player_name,
             find_players_by_name(bootstrap, map, player_name, TRUE))

\* The loops of make_transfers over player_names_out and then
\* player_names_in: names from position i on are still to be resolved, done
\* are the resolutions so far. Returns at the first name not found or
\* ambiguous.
RECURSIVE resolve_for_transfer(_, _, _, _, _)
transfer_name(bootstrap, map, names, i, done, matches) ==
    IF Len(matches) = 0
    THEN Outcome("not_found", Append(done, Resolution(names[i], matches, NoPlayer)))
    ELSE IF low_confidence(matches)
    THEN Outcome("ambiguous", Append(done, Resolution(names[i], matches, NoPlayer)))
    ELSE resolve_for_transfer(bootstrap, map, names, i + 1,
             Append(done, Resolution(names[i], matches, matches[1].id)))

resolve_for_transfer(bootstrap, map, names, i, done) ==
    IF i > Len(names) THEN Outcome("selected", done)
    ELSE transfer_name(bootstrap, map, names, i, done,
             find_players_by_name(bootstrap, map, names[i], TRUE))

\* mcp_tools.make_transfers up to ids_out / ids_in.
make_transfers(client, bootstrap, map, player_names_out, player_names_in) ==
    IF client = NoClient THEN Outcome("not_authenticated", <<>>)
    ELSE IF Len(player_names_out) # Len(player_names_in)
    THEN Outcome("length_mismatch", <<>>)
    ELSE resolve_for_transfer(bootstrap, map, player_names_out \o player_names_in,
                              1, <<>>)

\* --- make_transfers after ids_out / ids_in -------------------------------
\* What the calls that leave the process do during one make_transfers call:
\* the 'entry' value inside the user info fetched at login (NoEntry if it has
\* none), whether get_current_gameweek and get_my_team return or raise, the
\* elements of my_team['picks'], and whether the POST of execute_transfers
\* returns or raise_for_status raises on its response.
NoEntry == 0
Net(entry, gw, my_team, picks, post) ==
    [entry |-> entry, gw |-> gw, my_team |-> my_team, picks |-> picks, post |-> post]

\* SessionStore.get_user_entry_id
get_user_entry_id(ui, client, entry) ==
    IF ui[client] = "None" THEN NoEntry ELSE entry

\* What make_transfers returns and how many POSTs to transfers/ it made.
Transfer(text, sent) == [text |-> text, sent |-> sent]

\* The ownership check broken: every player counts as owned.
not_owned_never(resolutions, n, picks) == FALSE

\* `if ids_out[i] not in current_map:` for some i; ids_out are the players
\* picked for the first n names.
not_owned(resolutions, n, picks) ==
    \E i \in 1..n : resolutions[i].picked \notin picks

\* mcp_tools.make_transfers from "# Get entry ID" on; resolved is what the
\* two resolving loops gave, n is len(player_names_out).
execute_resolved(resolved, n, entry_id, net) ==
    IF resolved.outcome # "selected" THEN Transfer(resolved.outcome, 0)
    ELSE IF entry_id = NoEntry THEN Transfer("no_entry_id", 0)
    ELSE IF net.gw = "raise" \/ net.my_team = "raise" THEN Transfer("transfer_failed", 0)
    ELSE IF not_owned(resolved.resolutions, n, net.picks) THEN Transfer("not_owned", 0)
    ELSE IF net.post = "raise" THEN Transfer("transfer_failed", 1)
    ELSE Transfer("success", 1)

\* The loop of compare_players: returns at the first name not found,
\* collects the ambiguous names otherwise.
RECURSIVE resolve_for_compare(_, _, _, _, _, _)
compare_name(bootstrap, map, names, i, done, ambiguous, matches) ==
    IF Len(matches) = 0
    THEN Outcome("not_found", Append(done, Resolution(names[i], matches, NoPlayer)))
    ELSE resolve_for_compare(bootstrap, map, names, i + 1,
             Append(done, Resolution(names[i], matches,
                              IF clear_winner(matches) THEN matches[1].id ELSE NoPlayer)),
             ambiguous \/ ~clear_winner(matches))

resolve_for_compare(bootstrap, map, names, i, done, ambiguous) ==
    IF i > Len(names) THEN Outcome(IF ambiguous THEN "ambiguous" ELSE "selected", done)
    ELSE compare_name(bootstrap, map, names, i, done, ambiguous,
             find_players_by_name(bootstrap, map, names[i], TRUE))

min_compared == 2
max_compared == 5

\* mcp_tools.compare_players
compare_players(client, bootstrap, map, player_names) ==
    IF client = NoClient THEN Outcome("not_authenticated", <<>>)
    ELSE IF ~bootstrap.loaded THEN Outcome("no_data", <<>>)
    ELSE IF Len(player_names) < min_compared THEN Outcome("too_few", <<>>)
    ELSE IF Len(player_names) > max_compared THEN Outcome("too_many", <<>>)
    ELSE resolve_for_compare(bootstrap, map, player_names, 1, <<>>, FALSE)

\* `await store.ensure_bootstrap_data(client)`: SessionStore defines no such
\* method, the attribute lookup raises AttributeError.
ensure_bootstrap_data == Raise

\* mcp_resources.get_player_resource (fpl://player/{player_name})
get_player_resource(client, bootstrap, map, player_name) ==
    IF client = NoClient THEN Outcome("not_authenticated", <<>>)
    ELSE IF ensure_bootstrap_data.exc THEN Outcome("raise", <<>>)
    ELSE pick_unless_low_confidence(player_name,
             find_players_by_name(bootstrap, map, player_name, TRUE))

(***************************************************************************)
(*                      RESOLVER STATE MACHINE                             *)
(***************************************************************************)

\* Elements of bootstrap-static: David Silva and Thiago Silva share the web
\* name; Mohamed Salah has web name Salah, which is not his second name, so
\* he gets the fourth key ("mohamed salah").
ElementPool ==
    { Element(1, "Silva", "David", "Silva"),
      Element(2, "Silva", "Thiago", "Silva"),
      Element(3, "Salah", "Mohamed", "Ghaly") }

\* How many elements the cached bootstrap data holds at most.
MaxPlayers == 2

\* The element lists a cached bootstrap_data.json can hold: distinct
\* elements, in any order.
\* An element with empty first and second names (the fields are plain str):
\* its 'first second' key and its surname key are both the empty string.
Nameless == Element(4, "Rodri", "", "")

\* The element lists with the nameless player: alone, and behind David Silva.
NamelessSquads == {<<Nameless>>, <<Element(1, "Silva", "David", "Silva"), Nameless>>}

Squads ==
    UNION {{sq \in [1..n -> ElementPool] : \A i, j \in 1..n : sq[i] = sq[j] => i = j} :
           n \in 1..MaxPlayers}
    \cup NamelessSquads

\* Names typed by the caller; " " is a blank name.
Queries == {"silva", " SILVA ", "silv", "salah", "salar", "d silva", "xyz", " "}

\* player_names_out / player_names_in of make_transfers.
TransferNames == {<<>>, <<"silva">>, <<"salar">>}

\* player_names of compare_players.
CompareNames ==
    {<<"silva">>, <<"silva", "salah">>, <<"salah", "d silva">>, <<"salar", "xyz">>}

\* What the network does during a make_transfers call: everything works
\* and the user owns every player; the user info has no entry; either GET
\* raises; the user owns nobody; the POST is answered with an error status.
AllIds == {1, 2, 3, 4}
Nets ==
    { Net(7, "ok", "ok", AllIds, "ok"),
      Net(NoEntry, "ok", "ok", AllIds, "ok"),
      Net(7, "raise", "ok", AllIds, "ok"),
      Net(7, "ok", "raise", AllIds, "ok"),
      Net(7, "ok", "ok", {}, "ok"),
      Net(7, "ok", "ok", AllIds, "raise") }

\* The login state after `await store.set_login_success("r1", "s1", "c1")`
\* and check_login_status("r1").
LoggedIn ==
    /\ pending_logins = [r \in RequestIds |->
           IF r = "r1" THEN [status |-> "success", session_id |-> "s1", error |-> "None"]
           ELSE NoLogin]
    /\ active_sessions = [s \in SessionIds |-> IF s = "s1" THEN "c1" ELSE NoClient]
    /\ user_info = [c \in Clients |-> IF c = "c1" THEN "user_data" ELSE "None"]
    /\ active_session_id = "s1"
    /\ inflight = {}
    /\ lastSubmit = NoSubmit

\* SessionStore.__init__: _load_bootstrap_data leaves bootstrap_data None or
\* loads the cached elements and builds the indices. The session is either
\* not logged in or logged in.
InitResolver ==
    /\ CacheEmpty
    /\ LoginIdle \/ LoggedIn
    /\ bootstrap_data \in {NoBootstrap} \cup {[loaded |-> TRUE, elements |-> sq] : sq \in Squads}
    /\ player_name_map = build_player_indices(<<>>, bootstrap_data)
    /\ lastCall = NoCall

Client == tool_get_client(active_sessions, active_session_id)

\* store.find_players_by_name(name_query, fuzzy)
FindPlayersByName(name_query, fuzzy) ==
    /\ lastCall' = [op |-> "find_players_by_name", name_query |-> name_query,
                    fuzzy |-> fuzzy,
                    matches |-> find_players_by_name(bootstrap_data, player_name_map,
                                                     name_query, fuzzy)]
    /\ UNCHANGED <<bootstrap_data, player_name_map, cacheVars, loginVars>>

\* store._build_player_indices()
BuildPlayerIndices ==
    /\ player_name_map' = build_player_indices(player_name_map, bootstrap_data)
    /\ lastCall' = [op |-> "_build_player_indices"]
    /\ UNCHANGED <<bootstrap_data, cacheVars, loginVars>>

FindPlayer(player_name) ==
    /\ lastCall' = [op |-> "find_player",
                    result |-> find_player(Client, bootstrap_data, player_name_map,
                                           player_name)]
    /\ UNCHANGED <<bootstrap_data, player_name_map, cacheVars, loginVars>>

GetPlayerDetails(player_name) ==
    /\ lastCall' = [op |-> "get_player_details",
                    result |-> get_player_details(Client, bootstrap_data, player_name_map,
                                                  player_name)]
    /\ UNCHANGED <<bootstrap_data, player_name_map, cacheVars, loginVars>>

GetPlayerSummary(player_name) ==
    /\ lastCall' = [op |-> "get_player_summary",
                    result |-> get_player_summary(Client, bootstrap_data, player_name_map,
                                                  player_name)]
    /\ UNCHANGED <<bootstrap_data, player_name_map, cacheVars, loginVars>>

\* The network as far as a call consults it: a call that returns before
\* "# Get entry ID" consults nothing.
Consulted(resolved) ==
    IF resolved.outcome = "selected" THEN Nets ELSE {Net(NoEntry, "ok", "ok", {}, "ok")}

\* The rest of a make_transfers call whose names resolved as `resolved`;
\* n_out and n_in are the lengths of the two name lists.
MakeTransfersResolved(n_out, n_in, resolved) ==
    \E net \in Consulted(resolved) :
        /\ lastCall' = [op |-> "make_transfers",
                        result |-> resolved,
                        n_out |-> n_out,
                        n_in |-> n_in,
                        net |-> net,
                        entry_id |-> IF Client = NoClient THEN NoEntry
                                     ELSE get_user_entry_id(user_info, Client, net.entry),
                        transfer |-> execute_resolved(resolved, n_out,
                                         IF Client = NoClient THEN NoEntry
                                         ELSE get_user_entry_id(user_info, Client, net.entry),
                                         net)]
        /\ UNCHANGED <<bootstrap_data, player_name_map, cacheVars, loginVars>>

\* make_transfers(player_names_out, player_names_in)
MakeTransfers(player_names_out, player_names_in) ==
    MakeTransfersResolved(Len(player_names_out), Len(player_names_in),
        make_transfers(Client, bootstrap_data, player_name_map,
                       player_names_out, player_names_in))

ComparePlayers(player_names) ==
    /\ lastCall' = [op |-> "compare_players",
                    result |-> compare_players(Client, bootstrap_data, player_name_map,
                                               player_names)]
    /\ UNCHANGED <<bootstrap_data, player_name_map, cacheVars, loginVars>>

GetPlayerResource(player_name) ==
    /\ lastCall' = [op |-> "fpl://player",
                    result |-> get_player_resource(Client, bootstrap_data, player_name_map,
                                                   player_name)]
    /\ UNCHANGED <<bootstrap_data, player_name_map, cacheVars, loginVars>>

NextResolver ==
    \/ \E q \in Queries, fuzzy \in BOOLEAN : FindPlayersByName(q, fuzzy)
    \/ BuildPlayerIndices
    \/ \E q \in Queries : FindPlayer(q)
    \/ \E q \in Queries : GetPlayerDetails(q)
    \/ \E q \in Queries : GetPlayerSummary(q)
    \/ \E out \in TransferNames, in \in TransferNames : MakeTransfers(out, in)
    \/ \E names \in CompareNames : ComparePlayers(names)
    \/ \E q \in Queries : GetPlayerResource(q)

ResolverSpec == InitResolver /\ [][NextResolver]_vars

(***************************************************************************)
(*                     CLAIMS ABOUT THE RESOLVER                           *)
(***************************************************************************)

ResolvingCalls ==
    {"find_player", "get_player_details", "get_player_summary", "make_transfers",
     "compare_players", "fpl://player"}

\* A candidate list is unambiguous: exactly one candidate, or a top score of
\* at least 0.95 that is more than 0.2 above the second.
Unambiguous(matches) ==
    \/ Len(matches) = 1
    \/ /\ Len(matches) > 1
       /\ Ge(matches[1].score, Frac(95, 100))
       /\ Gt(Minus(matches[1].score, matches[2].score), Frac(2, 10))

\* C1 (as stated): every operation that resolves a name goes on with the top
\* candidate only when the candidate list is unambiguous; for any other
\* non-empty list it picks nobody and reports ambiguity.
C1_PicksOnlyUnambiguous ==
    lastCall.op \in ResolvingCalls =>
        \A i \in 1..Len(lastCall.result.resolutions) :
            LET r == lastCall.result.resolutions[i] IN
            /\ r.picked # NoPlayer => Unambiguous(r.matches)
            /\ (Len(r.matches) > 0 /\ ~Unambiguous(r.matches)) =>
                   /\ r.picked = NoPlayer
                   /\ lastCall.result.outcome = "ambiguous"

\* The keys of the index that hold the player.
KeysOf(map, player_id) == {k \in 1..Len(map) : in_list(map[k].ids, player_id)}

\* The scores a set of index keys earns for a query, tier by tier.
ExactScores(map, q, keys) == {One : k \in {x \in keys : map[x].key = q}}
SubstringScores(map, q, keys) ==
    {Times(length_ratio(q, map[k].key), Frac(9, 10)) :
        k \in {x \in keys : contains(map[x].key, q) \/ contains(q, map[x].key)}}
FuzzyScores(map, q, keys) ==
    {Times(ratio(q, map[k].key), Frac(8, 10)) :
        k \in {x \in keys : Ge(ratio(q, map[x].key), Frac(6, 10))}}

\* Which tiers are tried: the substring tier when no key equals the query,
\* the fuzzy tier when enabled and nothing so far scores 0.7.
SubstringTried(map, q) == ExactScores(map, q, 1..Len(map)) = {}
FuzzyTried(map, q, fuzzy) ==
    /\ fuzzy
    /\ SubstringTried(map, q)
    /\ \A s \in SubstringScores(map, q, 1..Len(map)) : Lt(s, Frac(7, 10))

\* Every score some matching key of the player earns in the tiers tried.
Earned(map, q, fuzzy, player_id) ==
    ExactScores(map, q, KeysOf(map, player_id))
    \cup (IF SubstringTried(map, q)
          THEN SubstringScores(map, q, KeysOf(map, player_id)) ELSE {})
    \cup (IF FuzzyTried(map, q, fuzzy)
          THEN FuzzyScores(map, q, KeysOf(map, player_id)) ELSE {})

\* C5 (as stated): the score find_players_by_name reports for a player is the
\* maximum of the scores its matching keys earn: no higher, and never lower
\* because of the order in which the keys were visited.
C5_ScoreIsMaximumOverKeys ==
    lastCall.op = "find_players_by_name" =>
        \A i \in 1..Len(lastCall.matches) :
            LET m == lastCall.matches[i]
                earned == Earned(player_name_map, normalize_name(lastCall.name_query),
                                 lastCall.fuzzy, m.id)
            IN  /\ \E s \in earned : Eq(m.score, s)
                /\ \A s \in earned : Ge(m.score, s)

\* C10: when the normalized query is a key of the index, find_players_by_name
\* returns each player registered under that key once, with score 1.0, and
\* nobody else; so two players under 'silva' are both returned for 'silva',
\* and a lone Salah is the single candidate for 'salah'.
C10_ExactMatchReturnsTheKey ==
    (lastCall.op = "find_players_by_name" /\ bootstrap_data.loaded) =>
        LET q == normalize_name(lastCall.name_query)
            k == key_index(player_name_map, q)
            returned == {lastCall.matches[i].id : i \in 1..Len(lastCall.matches)}
            silvas == {e.id : e \in {x \in ElementPool : x.web_name = "Silva"}}
            loaded == {bootstrap_data.elements[i].id : i \in 1..Len(bootstrap_data.elements)}
        IN  /\ k # 0 =>
                /\ returned = {player_name_map[k].ids[i] :
                                  i \in 1..Len(player_name_map[k].ids)}
                /\ Len(lastCall.matches) = Cardinality(returned)
                /\ \A i \in 1..Len(lastCall.matches) : Eq(lastCall.matches[i].score, One)
            /\ (q = "silva" /\ silvas \subseteq loaded) => silvas \subseteq returned
            /\ (q = "salah" /\ loaded = {3}) =>
                   lastCall.matches = <<[id |-> 3, score |-> One]>>

\* C10 witness: 'silva' (typed with capitals and spaces) has just been
\* resolved while David Silva and Thiago Silva are both loaded, and both came
\* back.
C10_Witness ==
    /\ lastCall.op = "find_players_by_name"
    /\ lastCall.name_query = " SILVA "
    /\ bootstrap_data.loaded
    /\ {1, 2} \subseteq {bootstrap_data.elements[i].id : i \in 1..Len(bootstrap_data.elements)}
    /\ {1, 2} \subseteq {lastCall.matches[i].id : i \in 1..Len(lastCall.matches)}

\* C11 (as stated): every score find_players_by_name returns is greater than
\* 0 and at most 1.
C11_ScoreInUnitInterval ==
    lastCall.op = "find_players_by_name" =>
        \A i \in 1..Len(lastCall.matches) :
            /\ Gt(lastCall.matches[i].score, Frac(0, 1))
            /\ Ge(One, lastCall.matches[i].score)

\* No key of the index equals the normalized name.
NoExactKey(name) == key_index(player_name_map, normalize_name(name)) = 0

\* C12: when no key equals the normalized query, every returned score is
\* below 0.9 (hence below 0.95), so the candidate list is unambiguous only if
\* it has a single candidate; and find_player selects for such a name only
\* a sole candidate.
C12_NonExactBelowConfident ==
    /\ (lastCall.op = "find_players_by_name" /\ NoExactKey(lastCall.name_query)) =>
           /\ \A i \in 1..Len(lastCall.matches) :
                  /\ Lt(lastCall.matches[i].score, Frac(9, 10))
                  /\ Lt(lastCall.matches[i].score, Frac(95, 100))
           /\ Unambiguous(lastCall.matches) => Len(lastCall.matches) = 1
    /\ lastCall.op = "find_player" =>
           \A i \in 1..Len(lastCall.result.resolutions) :
               LET r == lastCall.result.resolutions[i] IN
               (NoExactKey(r.name) /\ r.picked # NoPlayer) => Len(r.matches) = 1

\* C12 witness: a name that is no key has just been resolved to more than
\* one candidate.
C12_Witness ==
    /\ lastCall.op = "find_players_by_name"
    /\ NoExactKey(lastCall.name_query)
    /\ Len(lastCall.matches) > 1

\* Position of the first occurrence of x in a list that holds it.
FirstAt(list, x) ==
    CHOOSE i \in 1..Len(list) : list[i] = x /\ \A j \in 1..(i - 1) : list[j] # x

\* The least key position of a non-empty set of key positions.
FirstKey(keys) == CHOOSE k \in keys : \A x \in keys : k <= x

\* When a returned player first received a score: <<tier, key, place in the
\* key's id list>>, the tiers visiting the keys in index order.
FirstScored(map, q, player_id) ==
    LET mine == KeysOf(map, player_id)
        exact == {k \in mine : map[k].key = q}
        substring == {k \in mine : contains(map[k].key, q) \/ contains(q, map[k].key)}
        fuzzy == {k \in mine : Ge(ratio(q, map[k].key), Frac(6, 10))}
        tier == IF exact # {} THEN 1 ELSE IF substring # {} THEN 2 ELSE 3
        key == FirstKey(IF tier = 1 THEN exact ELSE IF tier = 2 THEN substring ELSE fuzzy)
    IN  <<tier, key, FirstAt(map[key].ids, player_id)>>

Earlier(x, y) ==
    \/ x[1] < y[1]
    \/ x[1] = y[1] /\ x[2] < y[2]
    \/ x[1] = y[1] /\ x[2] = y[2] /\ x[3] < y[3]

\* C13: the list find_players_by_name returns is in non-increasing score
\* order, holds each player at most once, and keeps players with equal scores
\* in the order in which they first received a score.
C13_SortedStableNoDuplicates ==
    lastCall.op = "find_players_by_name" =>
        LET q == normalize_name(lastCall.name_query) IN
        \A i, j \in 1..Len(lastCall.matches) :
            i < j =>
                /\ Ge(lastCall.matches[i].score, lastCall.matches[j].score)
                /\ lastCall.matches[i].id # lastCall.matches[j].id
                /\ Eq(lastCall.matches[i].score, lastCall.matches[j].score) =>
                       Earlier(FirstScored(player_name_map, q, lastCall.matches[i].id),
                               FirstScored(player_name_map, q, lastCall.matches[j].id))

\* C13 witness: two players have just been returned with equal scores.
C13_Witness ==
    /\ lastCall.op = "find_players_by_name"
    /\ Len(lastCall.matches) = 2
    /\ Eq(lastCall.matches[1].score, lastCall.matches[2].score)

(***************************************************************************)
(*                 CLAIMS ABOUT TOOLS WITHOUT A SESSION                    *)
(***************************************************************************)

\* The active session id is unset, or active_sessions has no entry for it.
NoActiveSession ==
    \/ active_session_id = "None"
    \/ active_sessions[active_session_id] = NoClient

\* What the tools that take a client return in the current state. Every tool
\* of mcp_tools.py and every resource of mcp_resources.py opens with the same
\* two lines as these (client = _get_client(); if not client: return ...).
ToolResults ==
    {find_player(Client, bootstrap_data, player_name_map, q) : q \in Queries}
    \cup {get_player_details(Client, bootstrap_data, player_name_map, q) : q \in Queries}
    \cup {get_player_summary(Client, bootstrap_data, player_name_map, q) : q \in Queries}
    \cup {get_player_resource(Client, bootstrap_data, player_name_map, q) : q \in Queries}
    \cup {make_transfers(Client, bootstrap_data, player_name_map, out, in) :
              out \in TransferNames, in \in TransferNames}
    \cup {compare_players(Client, bootstrap_data, player_name_map, names) :
              names \in CompareNames}

\* C16: while there is no active session, every tool returns the 'Not
\* authenticated' error (it does not raise and resolves nothing); and a
\* check_login_status that answers pending, failed or invalid id leaves the
\* active session id and pending_logins as they were.
C16_NoSessionNoTool ==
    /\ NoActiveSession =>
           \A result \in ToolResults :
               result = Outcome("not_authenticated", <<>>)
    /\ \A r \in RequestIds :
           StatusOf(r).text \in {"Login pending", "Login failed", "Error: Invalid Request ID"} =>
               /\ StatusOf(r).sid = active_session_id
               /\ StatusOf(r).logins = pending_logins

\* C16 witness: the store holds a session, but no session id was activated
\* (one request has failed): find_player answers 'Not authenticated'.
C16_Witness ==
    /\ active_session_id = "None"
    /\ \E x \in SessionIds : active_sessions[x] # NoClient
    /\ \E r \in RequestIds : pending_logins[r].status = "failed"
    /\ find_player(Client, bootstrap_data, player_name_map, "silva").outcome
           = "not_authenticated"

\* C17 (as stated): with bootstrap_data None, every operation that resolves a
\* player name reports that the data is not available, which is not the
\* answer it gives when nothing matches, and does not raise.
C17_NoDataIsReported ==
    (lastCall.op \in ResolvingCalls /\ ~bootstrap_data.loaded /\ Client # NoClient) =>
        lastCall.result.outcome = "no_data"

(***************************************************************************)
(*                      CLAIMS ABOUT THE NAME INDEX                        *)
(***************************************************************************)

\* The keys one element is to be found under.
KeysFor(e) ==
    {normalize_name(e.web_name),
     normalize_name((e.first_name \o " ") \o e.second_name),
     normalize_name(e.second_name)}
    \cup (IF Len(e.first_name) > 0 /\ e.web_name # e.second_name
          THEN {normalize_name((e.first_name \o " ") \o e.web_name)} ELSE {})

LoadedElements == {bootstrap_data.elements[i] : i \in 1..Len(bootstrap_data.elements)}

\* C18: once the index is built, every loaded player is registered under his
\* normalized web name, 'first second' name and second name, and under 'first
\* web' when the first name is non-empty and the web name is not the second
\* name; under no other key; and no key lists an id twice (nor is a key
\* listed twice).
C18_IndexHoldsTheFourKeys ==
    bootstrap_data.loaded =>
        /\ \A e \in LoadedElements : \A key \in KeysFor(e) :
               \E k \in 1..Len(player_name_map) :
                   player_name_map[k].key = key /\ in_list(player_name_map[k].ids, e.id)
        /\ \A k \in 1..Len(player_name_map) :
               /\ \A i \in 1..Len(player_name_map[k].ids) :
                      \E e \in LoadedElements :
                          /\ e.id = player_name_map[k].ids[i]
                          /\ player_name_map[k].key \in KeysFor(e)
               /\ \A i, j \in 1..Len(player_name_map[k].ids) :
                      player_name_map[k].ids[i] = player_name_map[k].ids[j] => i = j
               /\ \A x \in 1..Len(player_name_map) :
                      player_name_map[x].key = player_name_map[k].key => x = k

\* C18 witness: the index has just been rebuilt over Salah, who has the
\* fourth key, and a Silva, whose web name and second name give one key.
C18_Witness ==
    /\ lastCall.op = "_build_player_indices"
    /\ bootstrap_data.loaded
    /\ \E e \in LoadedElements : e.web_name = "Silva"
    /\ \E k \in 1..Len(player_name_map) :
           player_name_map[k].key = "mohamed salah" /\ player_name_map[k].ids = <<3>>

\* C19: the index is a function of the loaded elements alone: it is what a
\* build from scratch over them gives, building again changes nothing, and
\* find_players_by_name answers every query the same before and after.
C19_IndexIsFunctionOfData ==
    bootstrap_data.loaded =>
        /\ player_name_map = build_player_indices(<<>>, bootstrap_data)
        /\ build_player_indices(player_name_map, bootstrap_data) = player_name_map
        /\ \A q \in Queries :
               find_players_by_name(bootstrap_data,
                   build_player_indices(player_name_map, bootstrap_data), q, TRUE)
               = find_players_by_name(bootstrap_data, player_name_map, q, TRUE)

\* C19 witness: the index has just been built a second time over two loaded
\* elements.
C19_Witness ==
    /\ lastCall.op = "_build_player_indices"
    /\ bootstrap_data.loaded
    /\ Len(bootstrap_data.elements) = 2
    /\ Len(player_name_map) > 0

(***************************************************************************)
(*                         STORE CONSTRUCTION                              *)
(***************************************************************************)

\* The cache file _load_bootstrap_data reads.
bootstrap_key == "bootstrap_data.json"

\* The bootstrap key and the key named like its metadata file.
BootKeys == {bootstrap_key, bootstrap_key \o metadata_suffix}

BootPaths == {get_data_path(k) : k \in BootKeys} \cup {get_metadata_path(k) : k \in BootKeys}

\* A JSON object BootstrapData(**raw_data) accepts, with its elements.
Payload(sq) == [kind |-> "bootstrap", elements |-> sq]

\* The JSON object {}: falsy in "if raw_data:".
EmptyJson == [kind |-> "empty"]

\* The element lists of the payloads written to the cache.
StartupSquads == {sq \in Squads : \A i \in 1..Len(sq) : sq[i].id = i}

\* Values written under the two keys.
StartupVals ==
    {Payload(sq) : sq \in StartupSquads} \cup {EmptyJson, Blob, MetaDict(NotIso, ttl_hours)}

\* Python truth value of what cache.get returned.
truthy(v) == v # None /\ v.kind # "empty"

\* BootstrapData(**raw_data): raises unless the object has the model's fields.
parse_bootstrap(raw_data) ==
    IF raw_data.kind = "bootstrap"
    THEN Ret([loaded |-> TRUE, elements |-> raw_data.elements])
    ELSE Raise

\* What the store holds when _load_bootstrap_data returns.
Held(bootstrap, map) == [bootstrap_data |-> bootstrap, player_name_map |-> map]

\* The tail of the try block once the payload is parsed and indexed:
\* get_cache_info and is_expired are called for the log lines, and an
\* exception from either reaches the except clause.
after_indexing(f, t, bootstrap, map) ==
    IF get_cache_info(f, t, bootstrap_key).exc THEN Held(NoBootstrap, map)
    ELSE IF is_expired(f, t, bootstrap_key).exc THEN Held(NoBootstrap, map)
    ELSE Held(bootstrap, map)

\* SessionStore._load_bootstrap_data
load_bootstrap_data(f, t, map) ==
    LET raw_data == get(f, t, bootstrap_key, TRUE) IN
    IF raw_data.exc THEN Held(NoBootstrap, map)
    ELSE IF ~truthy(raw_data.val) THEN Held(NoBootstrap, map)
    ELSE IF parse_bootstrap(raw_data.val).exc THEN Held(NoBootstrap, map)
    ELSE after_indexing(f, t, parse_bootstrap(raw_data.val).val,
                        build_player_indices(map, parse_bootstrap(raw_data.val).val))

\* No process has run yet: an empty cache directory and no store.
InitStartup ==
    /\ files = [p \in BootPaths |-> Missing]
    /\ now = 0
    /\ written = [k \in BootKeys |-> Never]
    /\ lastOp = NoOp
    /\ LoginIdle
    /\ ResolverIdle

\* store = SessionStore(): __init__ empties every map and then loads the
\* bootstrap payload (fixtures_data is not part of the state). The call
\* record keeps the payload file as the load found it and whether the load
\* left the directory different.
Construct ==
    /\ pending_logins' = [r \in RequestIds |-> NoLogin]
    /\ active_sessions' = [s \in SessionIds |-> NoClient]
    /\ bootstrap_data' = load_bootstrap_data(files, now, <<>>).bootstrap_data
    /\ player_name_map' = load_bootstrap_data(files, now, <<>>).player_name_map
    /\ UNCHANGED <<cacheVars, user_info, active_session_id, inflight, lastSubmit>>
    /\ lastCall' = [op |-> "_load_bootstrap_data",
                    found |-> files[get_data_path(bootstrap_key)],
                    metadata |-> files[get_metadata_path(bootstrap_key)],
                    wrote |-> files' # files]

\* cache.set(k, d) by an earlier run of the server.
EarlierSet(k, d) ==
    /\ files' = set(files, now, k, d)
    /\ UNCHANGED <<now, written, lastOp, loginVars, resolverVars>>

\* cache.set(k, d) by an earlier run that died in it.
EarlierSetInterrupted(k, d, stage) ==
    /\ files' = set_interrupted(files, k, d, stage)
    /\ UNCHANGED <<now, written, lastOp, loginVars, resolverVars>>

\* cache.invalidate(k) by an earlier run.
EarlierInvalidate(k) ==
    /\ files' = invalidate(files, k).files
    /\ UNCHANGED <<now, written, lastOp, loginVars, resolverVars>>

NextStartup ==
    \/ \E k \in BootKeys, d \in StartupVals : EarlierSet(k, d)
    \/ \E d \in StartupVals, stage \in 1..3 : EarlierSetInterrupted(bootstrap_key, d, stage)
    \/ \E k \in BootKeys : EarlierInvalidate(k)
    \/ Tick
    \/ Construct

StartupSpec == InitStartup /\ [][NextStartup]_vars

(***************************************************************************)
(*                   CLAIMS ABOUT STORE CONSTRUCTION                       *)
(***************************************************************************)

\* C20: a construction leaves the cache directory as it was; a payload that
\* is present and parses is loaded and indexed whatever its metadata says,
\* so bootstrap_data is None only if the payload is absent or does not parse.
C20_PresentPayloadIsLoaded ==
    lastCall.op = "_load_bootstrap_data" =>
        /\ ~lastCall.wrote
        /\ lastCall.found.kind = "bootstrap" =>
               /\ bootstrap_data = [loaded |-> TRUE, elements |-> lastCall.found.elements]
               /\ player_name_map = build_player_indices(<<>>, bootstrap_data)
        /\ bootstrap_data = NoBootstrap => lastCall.found.kind # "bootstrap"

(***************************************************************************)
(*               CLAIMS ABOUT THE WEB AND THE MCP THREAD                   *)
(***************************************************************************)

\* The texts with which check_login_status reports a successful login.
SuccessTexts == {"Authentication Successful", "Authentication Successful, entry loaded"}

\* C21: whenever the web thread stands between two statements of
\* set_login_success, a check_login_status call that reports success sets the
\* active session id to a session of active_sessions, so that _get_client
\* finds a client afterwards.
C21_ReportedSuccessIsUsable ==
    \A r \in RequestIds :
        StatusOf(r).text \in SuccessTexts =>
            /\ StatusOf(r).sid \in SessionIds
            /\ tool_get_client(active_sessions, StatusOf(r).sid) # NoClient

(***************************************************************************)
(*                     CLAIMS ABOUT THE THREE TIERS                        *)
(***************************************************************************)

\* The (id, score) pairs of a result list.
Entries(list) == {list[i] : i \in 1..Len(list)}

\* The results dict when tiers 1 and 2 are done.
SubstringStage(map, q) == with_substring(exact_tier(map, q), map, q)

\* Fuzzy matching is enabled and tiers 1 and 2 left nothing, or nothing that
\* scores 0.7 or more.
FuzzyDue(pre, fuzzy) ==
    fuzzy /\ \A i \in 1..Len(pre) : Lt(pre[i].score, Frac(7, 10))

\* The entry is ratio x 0.8 for a key of its player that is similar enough.
FuzzyScored(map, q, entry) ==
    \E k \in 1..Len(map) :
        /\ \E i \in 1..Len(map[k].ids) : map[k].ids[i] = entry.id
        /\ Ge(ratio(q, map[k].key), Frac(6, 10))
        /\ Eq(entry.score, Times(ratio(q, map[k].key), Frac(8, 10)))

\* The players of every key whose ratio to q is at least 0.6.
FuzzyReach(map, q) ==
    UNION {{map[k].ids[i] : i \in 1..Len(map[k].ids)} :
           k \in {x \in 1..Len(map) : Ge(ratio(q, map[x].key), Frac(6, 10))}}

\* The claim for one call: the index, the normalized query, the flag, the
\* list returned, and the results after tiers 1 and 2.
TiersAsStated(map, q, fuzzy, matches, pre) ==
    /\ ~FuzzyDue(pre, fuzzy) => Entries(matches) = Entries(pre)
    /\ FuzzyDue(pre, fuzzy) =>
           /\ \A e \in Entries(matches) : e \in Entries(pre) \/ FuzzyScored(map, q, e)
           /\ FuzzyReach(map, q) \subseteq {e.id : e \in Entries(matches)}
    /\ key_index(map, q) # 0 =>
           Entries(pre) = {[id |-> map[key_index(map, q)].ids[i], score |-> One] :
                             i \in 1..Len(map[key_index(map, q)].ids)}

\* C22: the fuzzy tier changes the result if and only if fuzzy matching is
\* enabled and tiers 1 and 2 left no candidate or a best score below 0.7;
\* then it brings in the players of the keys with ratio >= 0.6, scored
\* ratio x 0.8; and an exact match keeps the substring tier from running.
C22_TiersRunAsStated ==
    (lastCall.op = "find_players_by_name" /\ bootstrap_data.loaded) =>
        TiersAsStated(player_name_map, normalize_name(lastCall.name_query),
                      lastCall.fuzzy, lastCall.matches,
                      SubstringStage(player_name_map, normalize_name(lastCall.name_query)))

\* C22 witness: the fuzzy tier alone found the player.
C22_Witness ==
    /\ lastCall.op = "find_players_by_name"
    /\ lastCall.name_query = "salar"
    /\ lastCall.fuzzy
    /\ Len(lastCall.matches) = 1
    /\ FuzzyScored(player_name_map, "salar", lastCall.matches[1])

(***************************************************************************)
(*                   CLAIMS ABOUT AN INTERRUPTED set                       *)
(***************************************************************************)

\* What the reads of key k give once set(k, d) has died between its two writes.
DataOnlyReads(f, t, k, d) ==
    /\ is_expired(f, t, k) = Ret(TRUE)
    /\ get(f, t, k, FALSE) = Ret(None)
    /\ get(f, t, k, TRUE) = Ret(d)
    /\ ~get_cache_info(f, t, k).exc

\* C23: when set(k, d) dies after the data file is written and before the
\* metadata file is, and k had no metadata file, is_expired(k) is true,
\* get(k) is absent, get(k, ignore_expiry=True) is d, and no read raises.
C23_DataWithoutMetadataTolerated ==
    [][\A k \in Keys, d \in JsonVals :
          (SetInterrupted(k, d, 2) /\ ~exists(files, get_metadata_path(k))) =>
              DataOnlyReads(files', now', k, d)]_vars

\* C23 witness: a set has just died leaving a data file and no metadata file.
C23_Witness ==
    /\ lastOp.op = "set_interrupted"
    /\ lastOp.key = "k"
    /\ files[get_data_path("k")] \in JsonVals
    /\ ~exists(files, get_metadata_path("k"))

(***************************************************************************)
(*                      CLAIMS ABOUT A BLANK QUERY                         *)
(***************************************************************************)

\* Empty and whitespace-only names.
BlankQueries == {"", " ", "  "}

\* The ids the index holds.
IndexedIds(map) == UNION {{map[k].ids[i] : i \in 1..Len(map[k].ids)} : k \in 1..Len(map)}

\* The ids of a result list.
Ids(matches) == {matches[i].id : i \in 1..Len(matches)}

\* What the store returns for q in the current state.
Found(q, fuzzy) == find_players_by_name(bootstrap_data, player_name_map, q, fuzzy)

\* C24 (as stated): a blank query normalizes to the empty string, equals no
\* key of the index, and returns every indexed player.
C24_BlankReturnsEveryone ==
    bootstrap_data.loaded =>
        \A q \in BlankQueries, fuzzy \in BOOLEAN :
            /\ normalize_name(q) = ""
            /\ key_index(player_name_map, "") = 0
            /\ Ids(Found(q, fuzzy)) = IndexedIds(player_name_map)

\* The players registered under the empty key, each with score 1.0.
UnderEmptyKey(map) ==
    {[id |-> map[key_index(map, "")].ids[i], score |-> One] :
        i \in 1..Len(map[key_index(map, "")].ids)}

\* C24 (amended): a blank query normalizes to the empty string; if no key of
\* the index is empty it returns every indexed player, through the
\* substring tier (each with score 0); if a player with an empty name field
\* made the empty string a key, it returns the players of that key, each
\* with score 1.0, and no other.
C24_BlankReturnsEveryoneOrEmptyKey ==
    bootstrap_data.loaded =>
        \A q \in BlankQueries, fuzzy \in BOOLEAN :
            /\ normalize_name(q) = ""
            /\ key_index(player_name_map, "") = 0 =>
                   /\ Ids(Found(q, fuzzy)) = IndexedIds(player_name_map)
                   /\ \A e \in Entries(Found(q, fuzzy)) : Eq(e.score, Frac(0, 1))
            /\ key_index(player_name_map, "") # 0 =>
                   Entries(Found(q, fuzzy)) = UnderEmptyKey(player_name_map)

\* C24 witness: a blank name has just been looked up in an index of two
\* players without an empty key, and both came back.
C24_Witness ==
    /\ lastCall.op = "find_players_by_name"
    /\ lastCall.name_query = " "
    /\ key_index(player_name_map, "") = 0
    /\ Len(bootstrap_data.elements) = 2
    /\ Len(lastCall.matches) = 2

(***************************************************************************)
(*                   CLAIMS ABOUT THE TRANSFER REQUEST                     *)
(***************************************************************************)

\* The call sent its request under the conditions stated: equal lengths,
\* a player picked for every name, a known entry id, every outgoing player
\* among the picks.
SentOnlyWhenChecked ==
    lastCall.transfer.sent = 1 =>
        /\ lastCall.n_out = lastCall.n_in
        /\ Len(lastCall.result.resolutions) = lastCall.n_out + lastCall.n_in
        /\ \A i \in 1..Len(lastCall.result.resolutions) :
               lastCall.result.resolutions[i].picked # NoPlayer
        /\ lastCall.entry_id # NoEntry
        /\ \A i \in 1..lastCall.n_out :
               lastCall.result.resolutions[i].picked \in lastCall.net.picks

ConfidentListIsExact(matches) ==
    (Len(matches) >= 2 /\ Ge(matches[1].score, Frac(95, 100))) =>
        \A i \in 1..Len(matches) : Eq(matches[i].score, One)

\* 'top score >= 0.95 and more than 0.2 above the second' on a list of two
\* or more.
GapClause(matches) ==
    /\ Ge(matches[1].score, Frac(95, 100))
    /\ Gt(Minus(matches[1].score, matches[2].score), Frac(2, 10))

\* C26: a result of two or more candidates whose top score is at least 0.95
\* consists of scores 1.0 only, so the gap clause never holds of it, and
\* find_player and compare_players select a player for a name if and only
\* if the name has exactly one candidate.
C26_SelectsOnlySoleCandidate ==
    /\ lastCall.op = "find_players_by_name" =>
           /\ ConfidentListIsExact(lastCall.matches)
           /\ Len(lastCall.matches) >= 2 => ~GapClause(lastCall.matches)
    /\ lastCall.op \in {"find_player", "compare_players"} =>
           \A i \in 1..Len(lastCall.result.resolutions) :
               /\ ConfidentListIsExact(lastCall.result.resolutions[i].matches)
               /\ Len(lastCall.result.resolutions[i].matches) >= 2 =>
                      ~GapClause(lastCall.result.resolutions[i].matches)
               /\ lastCall.result.resolutions[i].picked # NoPlayer
                      <=> Len(lastCall.result.resolutions[i].matches) = 1

\* C26 witness: compare_players has just resolved a name with two
\* candidates of score 1.0 and selected neither.
C26_Witness ==
    /\ lastCall.op = "compare_players"
    /\ Len(lastCall.result.resolutions) > 0
    /\ Len(lastCall.result.resolutions[1].matches) = 2
    /\ Ge(lastCall.result.resolutions[1].matches[1].score, Frac(95, 100))
    /\ Eq(lastCall.result.resolutions[1].matches[2].score, One)
    /\ lastCall.result.resolutions[1].picked = NoPlayer

(***************************************************************************)
(*                     CLAIMS ABOUT THE FUZZY TIER                         *)
(***************************************************************************)

\* Every player scored in `pre` is in `matches` with at least that score.
NoScoreLowered(pre, matches) ==
    \A i \in 1..Len(pre) :
        \E j \in 1..Len(matches) :
            /\ matches[j].id = pre[i].id
            /\ Ge(matches[j].score, pre[i].score)

\* C27 (as stated): every player who holds a score when tiers 1 and 2 are
\* done has, in the list returned, a score at least as high.
C27_FuzzyNeverLowers ==
    (lastCall.op = "find_players_by_name" /\ bootstrap_data.loaded) =>
        NoScoreLowered(
            SubstringStage(player_name_map, normalize_name(lastCall.name_query)),
            lastCall.matches)

(***************************************************************************)
(*                    CLAIMS ABOUT ACTIVE SESSIONS                         *)
(***************************************************************************)

\* C28 (as stated): every key of active_sessions is the session_id of a
\* login request in status success.
C28_SessionsBelongToSuccesses ==
    \A s \in SessionIds :
        active_sessions[s] # NoClient =>
            \E r \in RequestIds :
                /\ pending_logins[r].status = "success"
                /\ pending_logins[r].session_id = s

(***************************************************************************)
(*                 CLAIMS ABOUT LOOKUPS THAT COULD RAISE                   *)
(***************************************************************************)

\* C29: once the index is built, every id it holds is a key of
\* player_id_map; no query, blank ones included, makes the substring tier
\* divide by zero, also when a player's empty name made the empty string a
\* key; and every player returned is a key of player_id_map.
C29_LookupsDoNotRaise ==
    bootstrap_data.loaded =>
        /\ IndexedIds(player_name_map) \subseteq player_id_map_keys(bootstrap_data.elements)
        /\ \A q \in Queries \cup BlankQueries :
               ~zero_division(exact_tier(player_name_map, normalize_name(q)),
                              player_name_map, normalize_name(q))
        /\ lastCall.op = "find_players_by_name" =>
               Ids(lastCall.matches) \subseteq player_id_map_keys(bootstrap_data.elements)

\* C29 witness: a blank name has just been looked up in an index that has
\* the empty string as a key, and the player of that key came back.
C29_Witness ==
    /\ lastCall.op = "find_players_by_name"
    /\ lastCall.name_query = " "
    /\ key_index(player_name_map, "") # 0
    /\ Len(lastCall.matches) = 1
    /\ lastCall.matches[1].id = Nameless.id

(***************************************************************************)
(*                  CLAIMS ABOUT KEYS THAT SHARE FILES                     *)
(***************************************************************************)

\* What the four reads of key k give in directory f at time t.
Reads(f, t, k) ==
    <<get(f, t, k, FALSE), get(f, t, k, TRUE), is_expired(f, t, k), get_cache_info(f, t, k)>>

\* C30 (as stated): set(k, d) and invalidate(k) leave the results of get,
\* is_expired and get_cache_info of every other key as they were.
C30_OtherKeysUntouched ==
    [][\A k \in Keys :
          ((\E d \in JsonVals : Set(k, d)) \/ Invalidate(k)) =>
              \A other \in Keys \ {k} : Reads(files', now', other) = Reads(files, now, other)]_vars

====
